---- MODULE Spec2Model ----
(***************************************************************************)
(* gamesdk system-property accessors (android-games-sdk/src/common/        *)
(* system_utils.cpp): GetSystemProp, GetSystemPropAsInt and                *)
(* GetSystemPropAsBool over the OS property namespace, on the two query    *)
(* mechanisms the build selects between with __ANDROID_API__.              *)
(*                                                                         *)
(* A C string is a sequence of one-character strings.  TLC's integers are  *)
(* 32 bits wide, so the long long that strtoll returns is kept as a sign   *)
(* and a decimal magnitude, and its conversion to int is computed on two   *)
(* 16-bit limbs.                                                           *)
(***************************************************************************)
EXTENDS Integers, Sequences, FiniteSets, TLC

VARIABLES props, ANDROID_API, call, ret

\* History of the calls: seen is an earlier call with its result, fresh says
\* the namespace has not changed since, later says the last call came after
\* the one in seen.
VARIABLES seen, fresh, later

histVars == <<seen, fresh, later>>

\* The accessors run step by step on several threads: where each thread is
\* (pc), the arguments and locals of its call (frame), the std::string
\* return_value and the char buffer[] of each stack frame, and how many
\* times the thunk has run for the call (fired).
VARIABLES pc, frame, stack_return_value, stack_buffer, fired

threadVars == <<pc, frame, stack_return_value, stack_buffer, fired>>

\* The inputType an editor is given (GameTextInputType bits), with the class,
\* variation and flags it was built from, and its imeOptions
\* (GameTextInputActionType bits).
VARIABLES inputType, built, imeOptions

textVars == <<inputType, built, imeOptions>>

vars == <<props, ANDROID_API, call, ret, histVars, threadVars, textVars>>

\* ------------------------------------------------------------------------
\* Bounds of the model
\* ------------------------------------------------------------------------

\* Most leading blanks put in front of a property value.
MaxPad == 1

\* Integer defaults passed to GetSystemPropAsInt are -MaxDefault..MaxDefault.
MaxDefault == 1

\* ------------------------------------------------------------------------
\* Values
\* ------------------------------------------------------------------------

\* A pointer is a sequence: empty for the null pointer, <<x>> for a pointer
\* to x.
nullptr == <<>>

Keys == {"debug.foo.level", "debug.foo.on"}

Blanks(n) == [i \in 1..n |-> " "]

\* Values without leading blanks: empty, plain numerals, signed numerals,
\* and text that is no numeral or only starts with one.
BaseValues ==
    { <<>>,
      <<"0">>, <<"1">>, <<"3">>, <<"4", "2">>,
      <<"-", "1">>, <<"+", "3">>,
      <<"x">>, <<"7", "x">> }

\* Numerals at and beyond the edges of int and long long.
BigValues ==
    { <<"2","1","4","7","4","8","3","6","4","7">>,
      <<"2","1","4","7","4","8","3","6","4","8">>,
      <<"-","2","1","4","7","4","8","3","6","4","9">>,
      <<"4","2","9","4","9","6","7","2","9","6">>,
      <<"4","2","9","4","9","6","7","2","9","7">>,
      <<"9","2","2","3","3","7","2","0","3","6","8","5","4","7","7","5","8","0","8">>,
      <<"-","9","2","2","3","3","7","2","0","3","6","8","5","4","7","7","5","8","0","9">> }

PropValues == { Blanks(n) \o b : n \in 0..MaxPad, b \in BaseValues } \cup BigValues

StrDefaults == { <<>>, <<"d">> }

IntDefaults == (0 - MaxDefault)..MaxDefault

\* The build's platform level: the legacy side and the callback side of
\* "#if __ANDROID_API__ >= 26".
ApiLevels == {25, 26}

NoCall == [op |-> "none", key |-> "", default_value |-> <<>>]

\* ------------------------------------------------------------------------
\* The platform's property primitives (sys/system_properties.h).  props is
\* the namespace: a function from the keys it holds to their values.
\* ------------------------------------------------------------------------

\* Longest value the legacy buffer holds besides its terminator.
PROP_VALUE_MAX == 92

\* const prop_info* __system_property_find(const char* name)
system_property_find(key) ==
    IF key \in DOMAIN props THEN <<key>> ELSE nullptr

\* Mutant of thunk: the value is never stored through the cookie.
thunk_dropsValue(cookie, name, value, serial) == cookie

\* The lambda handed to __system_property_read_callback; the result is the
\* string the cookie points to once the lambda has run.
thunk(cookie, name, value, serial) ==
    IF value # nullptr THEN value[1] ELSE cookie

\* void __system_property_read_callback(pi, callback, cookie): calls the
\* callback once, before returning, with the property's name and value.
system_property_read_callback(prop, cookie) ==
    thunk(cookie, prop[1], <<props[prop[1]]>>, 0)

\* int __system_property_get(const char* name, char* value): fills the
\* buffer and returns the value's length, 0 for a key that is not there.
system_property_get(key, buffer) ==
    IF key \in DOMAIN props
    THEN LET n == IF Len(props[key]) > PROP_VALUE_MAX
                  THEN PROP_VALUE_MAX ELSE Len(props[key])
         IN  [len |-> n, buffer |-> SubSeq(props[key], 1, n)]
    ELSE [len |-> 0, buffer |-> <<>>]

\* ------------------------------------------------------------------------
\* system_utils.cpp
\* ------------------------------------------------------------------------

getSystemPropViaCallback(key, default_value) ==
    LET prop == system_property_find(key)
    IN  IF prop = nullptr
        THEN default_value
        ELSE LET return_value == <<>>
             IN  system_property_read_callback(prop, return_value)

getSystemPropViaGet(key, default_value) ==
    LET got == system_property_get(key, <<>>)
        bufferLen == got.len
    IN  IF bufferLen > 0 THEN got.buffer ELSE <<>>

GetSystemProp(key, default_value) ==
    IF ANDROID_API >= 26
    THEN getSystemPropViaCallback(key, default_value)
    ELSE getSystemPropViaGet(key, default_value)

\* ---- strtoll(nptr, nullptr, 10) and the conversion of its result to int --

isspace(c) == c \in {" ", "\t", "\n", "\r", "\f"}

DigitChars == <<"0", "1", "2", "3", "4", "5", "6", "7", "8", "9">>

isdigit(c) == \E d \in 1..10 : DigitChars[d] = c

\* Mutant of DigitOf: the digit's position in the table, not its value.
DigitOf_offByOne(c) == CHOOSE d \in 1..10 : DigitChars[d] = c

DigitOf(c) == (CHOOSE d \in 1..10 : DigitChars[d] = c) - 1

\* Mutant of SkipSpace: leading white space is not skipped.
SkipSpace_none(s, i) == i

\* First position from i on whose character does not satisfy the class
\* (Len(s) + 1 when there is none).
RECURSIVE SkipSpace(_, _)
SkipSpace(s, i) ==
    IF i <= Len(s) /\ isspace(s[i]) THEN SkipSpace(s, i + 1) ELSE i

\* Mutant of SkipDigits: an if where the loop should be, so one digit is
\* taken at most.
SkipDigits_one(s, i) ==
    IF i <= Len(s) /\ isdigit(s[i]) THEN i + 1 ELSE i

RECURSIVE SkipDigits(_, _)
SkipDigits(s, i) ==
    IF i <= Len(s) /\ isdigit(s[i]) THEN SkipDigits(s, i + 1) ELSE i

RECURSIVE StripZeros(_)
StripZeros(m) ==
    IF m # <<>> /\ Head(m) = 0 THEN StripZeros(Tail(m)) ELSE m

\* Decimal magnitudes (no leading zeros): a > b.
MagGreater(a, b) ==
    \/ Len(a) > Len(b)
    \/ /\ Len(a) = Len(b)
       /\ \E i \in 1..Len(a) :
             /\ a[i] > b[i]
             /\ \A j \in 1..(i - 1) : a[j] = b[j]

\* |LLONG_MAX| = 2^63 - 1 and |LLONG_MIN| = 2^63.
LLONG_MAX_MAG == <<9,2,2,3,3,7,2,0,3,6,8,5,4,7,7,5,8,0,7>>
LLONG_MIN_MAG == <<9,2,2,3,3,7,2,0,3,6,8,5,4,7,7,5,8,0,8>>

\* The long long strtoll returns, as [neg, mag]: blanks are skipped, one
\* sign is taken, the longest run of digits is converted, 0 when there is
\* none, LLONG_MAX or LLONG_MIN when the number is out of range.
strtoll(s) ==
    LET i0      == SkipSpace(s, 1)
        hasSign == i0 <= Len(s) /\ s[i0] \in {"+", "-"}
        neg     == hasSign /\ s[i0] = "-"
        i1      == IF hasSign THEN i0 + 1 ELSE i0
        i2      == SkipDigits(s, i1)
        mag     == StripZeros([k \in 1..(i2 - i1) |-> DigitOf(s[i1 + k - 1])])
    IN  IF mag = <<>> THEN [neg |-> FALSE, mag |-> <<>>]
        ELSE IF neg
        THEN [neg |-> TRUE,
              mag |-> IF MagGreater(mag, LLONG_MIN_MAG) THEN LLONG_MIN_MAG ELSE mag]
        ELSE [neg |-> FALSE,
              mag |-> IF MagGreater(mag, LLONG_MAX_MAG) THEN LLONG_MAX_MAG ELSE mag]

\* mag modulo 2^32 as two 16-bit limbs <<hi, lo>>, most significant digit
\* first.
RECURSIVE Low32(_, _)
Low32(mag, acc) ==
    IF mag = <<>> THEN acc
    ELSE LET lo == acc[2] * 10 + Head(mag)
             hi == acc[1] * 10 + (lo \div 65536)
         IN  Low32(Tail(mag), <<hi % 65536, lo % 65536>>)

\* Two's complement of a 32-bit pattern.
Neg32(w) ==
    IF w[2] = 0
    THEN <<(65536 - w[1]) % 65536, 0>>
    ELSE <<65535 - w[1], 65536 - w[2]>>

\* Mutant of ToInt: the conversion saturates at INT_MAX / INT_MIN instead of
\* keeping the low 32 bits.
ToInt_clamped(ll) ==
    IF MagGreater(ll.mag, <<2,1,4,7,4,8,3,6,4,7>>)
    THEN IF ll.neg THEN -2147483647 - 1 ELSE 2147483647
    ELSE LET u == Low32(ll.mag, <<0, 0>>)
             v == u[1] * 65536 + u[2]
         IN  IF ll.neg THEN 0 - v ELSE v

\* The implicit conversion of the long long to the int GetSystemPropAsInt
\* returns: the low 32 bits, read as a signed number.
ToInt(ll) ==
    LET u == Low32(ll.mag, <<0, 0>>)
        w == IF ll.neg THEN Neg32(u) ELSE u
    IN  IF w[1] >= 32768
        THEN (w[1] - 65536) * 65536 + w[2]
        ELSE w[1] * 65536 + w[2]

\* Mutant of GetSystemPropAsInt: the default is not used, 0 is.
GetSystemPropAsInt_zeroDefault(key, default_value) ==
    LET prop == GetSystemProp(key, <<>>)
    IN  IF prop = <<>> THEN 0 ELSE ToInt(strtoll(prop))

\* Mutant of GetSystemPropAsInt: the empty string is parsed like any other.
GetSystemPropAsInt_alwaysParse(key, default_value) ==
    ToInt(strtoll(GetSystemProp(key, <<>>)))

\* Mutant of GetSystemPropAsInt: text that does not end in a digit is
\* rejected and the default returned.
GetSystemPropAsInt_validating(key, default_value) ==
    LET prop == GetSystemProp(key, <<>>)
    IN  IF prop = <<>> \/ ~isdigit(prop[Len(prop)])
        THEN default_value
        ELSE ToInt(strtoll(prop))

GetSystemPropAsInt(key, default_value) ==
    LET prop == GetSystemProp(key, <<>>)
    IN  IF prop = <<>> THEN default_value ELSE ToInt(strtoll(prop))

\* Mutant of BoolToInt: the default is not passed on.
BoolToInt_dropped(b) == 0

\* bool -> int at the call of GetSystemPropAsInt.
BoolToInt(b) == IF b THEN 1 ELSE 0

\* Mutant of GetSystemPropAsBool: "> 0" for "!= 0".
GetSystemPropAsBool_positive(key, default_value) ==
    GetSystemPropAsInt(key, BoolToInt(default_value)) > 0

GetSystemPropAsBool(key, default_value) ==
    GetSystemPropAsInt(key, BoolToInt(default_value)) # 0

\* ------------------------------------------------------------------------
\* The state machine: the namespace changes under the program's feet, and
\* the program calls the three accessors.
\* ------------------------------------------------------------------------

\* ------------------------------------------------------------------------
\* gametextinput.h: the bits of inputType (enum GameTextInputType) and of
\* imeOptions (enum GameTextInputActionType).  The values are uint32_t; the
\* hexadecimal of the header is given beside each.
\* ------------------------------------------------------------------------

TYPE_MASK_CLASS == 15  \* 0x0000000f

TYPE_MASK_VARIATION == 4080  \* 0x00000ff0

\* Mutant of TYPE_MASK_FLAGS: the mask stops at bit 19 (0x000ff000).
TYPE_MASK_FLAGS_narrow == 255 * 4096

TYPE_MASK_FLAGS == 16773120  \* 0x00fff000

TYPE_NULL == 0  \* 0x00000000

TYPE_CLASS_TEXT == 1  \* 0x00000001

TYPE_TEXT_FLAG_CAP_CHARACTERS == 4096  \* 0x00001000

TYPE_TEXT_FLAG_CAP_WORDS == 8192  \* 0x00002000

TYPE_TEXT_FLAG_CAP_SENTENCES == 16384  \* 0x00004000

TYPE_TEXT_FLAG_AUTO_CORRECT == 32768  \* 0x00008000

TYPE_TEXT_FLAG_AUTO_COMPLETE == 65536  \* 0x00010000

TYPE_TEXT_FLAG_MULTI_LINE == 131072  \* 0x00020000

TYPE_TEXT_FLAG_IME_MULTI_LINE == 262144  \* 0x00040000

TYPE_TEXT_FLAG_NO_SUGGESTIONS == 524288  \* 0x00080000

TYPE_TEXT_FLAG_ENABLE_TEXT_CONVERSION_SUGGESTIONS == 1048576  \* 0x00100000

TYPE_TEXT_VARIATION_NORMAL == 0  \* 0x00000000

TYPE_TEXT_VARIATION_URI == 16  \* 0x00000010

TYPE_TEXT_VARIATION_EMAIL_ADDRESS == 32  \* 0x00000020

TYPE_TEXT_VARIATION_EMAIL_SUBJECT == 48  \* 0x00000030

TYPE_TEXT_VARIATION_SHORT_MESSAGE == 64  \* 0x00000040

TYPE_TEXT_VARIATION_LONG_MESSAGE == 80  \* 0x00000050

TYPE_TEXT_VARIATION_PERSON_NAME == 96  \* 0x00000060

TYPE_TEXT_VARIATION_POSTAL_ADDRESS == 112  \* 0x00000070

TYPE_TEXT_VARIATION_PASSWORD == 128  \* 0x00000080

TYPE_TEXT_VARIATION_VISIBLE_PASSWORD == 144  \* 0x00000090

TYPE_TEXT_VARIATION_WEB_EDIT_TEXT == 160  \* 0x000000a0

TYPE_TEXT_VARIATION_FILTER == 176  \* 0x000000b0

TYPE_TEXT_VARIATION_PHONETIC == 192  \* 0x000000c0

TYPE_TEXT_VARIATION_WEB_EMAIL_ADDRESS == 208  \* 0x000000d0

TYPE_TEXT_VARIATION_WEB_PASSWORD == 224  \* 0x000000e0

TYPE_CLASS_NUMBER == 2  \* 0x00000002

TYPE_NUMBER_FLAG_SIGNED == 4096  \* 0x00001000

TYPE_NUMBER_FLAG_DECIMAL == 8192  \* 0x00002000

TYPE_NUMBER_VARIATION_NORMAL == 0  \* 0x00000000

TYPE_NUMBER_VARIATION_PASSWORD == 16  \* 0x00000010

TYPE_CLASS_PHONE == 3  \* 0x00000003

TYPE_CLASS_DATETIME == 4  \* 0x00000004

TYPE_DATETIME_VARIATION_NORMAL == 0  \* 0x00000000

TYPE_DATETIME_VARIATION_DATE == 16  \* 0x00000010

TYPE_DATETIME_VARIATION_TIME == 32  \* 0x00000020

\* enum GameTextInputActionType

IME_MASK_ACTION == 255  \* 0x000000ff

IME_ACTION_UNSPECIFIED == 0  \* 0x00000000

IME_ACTION_NONE == 1  \* 0x00000001

IME_ACTION_GO == 2  \* 0x00000002

IME_ACTION_SEARCH == 3  \* 0x00000003

IME_ACTION_SEND == 4  \* 0x00000004

IME_ACTION_NEXT == 5  \* 0x00000005

IME_ACTION_DONE == 6  \* 0x00000006

IME_ACTION_PREVIOUS == 7  \* 0x00000007

IME_FLAG_NO_PERSONALIZED_LEARNING == 16777216  \* 0x1000000

IME_FLAG_NO_FULLSCREEN == 33554432  \* 0x2000000

IME_FLAG_NAVIGATE_PREVIOUS == 67108864  \* 0x4000000

IME_FLAG_NAVIGATE_NEXT == 134217728  \* 0x8000000

IME_FLAG_NO_EXTRACT_UI == 268435456  \* 0x10000000

IME_FLAG_NO_ACCESSORY_ACTION == 536870912  \* 0x20000000

IME_FLAG_NO_ENTER_ACTION == 1073741824  \* 0x40000000

IME_NULL == 0  \* 0x00000000

\* Every TYPE_CLASS_* constant.
TypeClasses ==
    { TYPE_CLASS_TEXT,
      TYPE_CLASS_NUMBER,
      TYPE_CLASS_PHONE,
      TYPE_CLASS_DATETIME }

\* Every TYPE_*_VARIATION_* constant.
TypeVariations ==
    { TYPE_TEXT_VARIATION_NORMAL,
      TYPE_TEXT_VARIATION_URI,
      TYPE_TEXT_VARIATION_EMAIL_ADDRESS,
      TYPE_TEXT_VARIATION_EMAIL_SUBJECT,
      TYPE_TEXT_VARIATION_SHORT_MESSAGE,
      TYPE_TEXT_VARIATION_LONG_MESSAGE,
      TYPE_TEXT_VARIATION_PERSON_NAME,
      TYPE_TEXT_VARIATION_POSTAL_ADDRESS,
      TYPE_TEXT_VARIATION_PASSWORD,
      TYPE_TEXT_VARIATION_VISIBLE_PASSWORD,
      TYPE_TEXT_VARIATION_WEB_EDIT_TEXT,
      TYPE_TEXT_VARIATION_FILTER,
      TYPE_TEXT_VARIATION_PHONETIC,
      TYPE_TEXT_VARIATION_WEB_EMAIL_ADDRESS,
      TYPE_TEXT_VARIATION_WEB_PASSWORD,
      TYPE_NUMBER_VARIATION_NORMAL,
      TYPE_NUMBER_VARIATION_PASSWORD,
      TYPE_DATETIME_VARIATION_NORMAL,
      TYPE_DATETIME_VARIATION_DATE,
      TYPE_DATETIME_VARIATION_TIME }

\* Every TYPE_*_FLAG_* constant.
TypeFlags ==
    { TYPE_TEXT_FLAG_CAP_CHARACTERS,
      TYPE_TEXT_FLAG_CAP_WORDS,
      TYPE_TEXT_FLAG_CAP_SENTENCES,
      TYPE_TEXT_FLAG_AUTO_CORRECT,
      TYPE_TEXT_FLAG_AUTO_COMPLETE,
      TYPE_TEXT_FLAG_MULTI_LINE,
      TYPE_TEXT_FLAG_IME_MULTI_LINE,
      TYPE_TEXT_FLAG_NO_SUGGESTIONS,
      TYPE_TEXT_FLAG_ENABLE_TEXT_CONVERSION_SUGGESTIONS,
      TYPE_NUMBER_FLAG_SIGNED,
      TYPE_NUMBER_FLAG_DECIMAL }

\* Every IME_ACTION_* constant.
ImeActions ==
    { IME_ACTION_UNSPECIFIED,
      IME_ACTION_NONE,
      IME_ACTION_GO,
      IME_ACTION_SEARCH,
      IME_ACTION_SEND,
      IME_ACTION_NEXT,
      IME_ACTION_DONE,
      IME_ACTION_PREVIOUS }

\* The IME_FLAG_* constants.  IME_FLAG_FORCE_ASCII = 0x80000000, bit 31, is
\* beyond the integers TLC computes with and is left out; the flags take no
\* part in the action bits.
ImeFlags ==
    { IME_FLAG_NO_PERSONALIZED_LEARNING,
      IME_FLAG_NO_FULLSCREEN,
      IME_FLAG_NAVIGATE_PREVIOUS,
      IME_FLAG_NAVIGATE_NEXT,
      IME_FLAG_NO_EXTRACT_UI,
      IME_FLAG_NO_ACCESSORY_ACTION,
      IME_FLAG_NO_ENTER_ACTION }

\* The operators & and | on uint32_t values.
RECURSIVE BitAnd(_, _)
BitAnd(a, b) ==
    IF a = 0 \/ b = 0 THEN 0
    ELSE (a % 2) * (b % 2) + 2 * BitAnd(a \div 2, b \div 2)

RECURSIVE BitOr(_, _)
BitOr(a, b) ==
    IF a = 0 THEN b
    ELSE IF b = 0 THEN a
    ELSE (IF a % 2 = 1 \/ b % 2 = 1 THEN 1 ELSE 0)
             + 2 * BitOr(a \div 2, b \div 2)

\* The layout diagrams draw a constant as 1s in the columns of its bits,
\* column 0 the rightmost: the row of a constant is the set of the columns
\* where a 1 is drawn, and its value the sum of their powers of two.
RECURSIVE BitsValue(_)
BitsValue(S) ==
    IF S = {} THEN 0
    ELSE LET i == CHOOSE x \in S : TRUE
         IN  2 ^ i + BitsValue(S \ {i})

\* The row "1111 IME_MASK_ACTION" of the imeOptions diagram.
Diagram_IME_MASK_ACTION == {0, 1, 2, 3}

\* ------------------------------------------------------------------------

Threads == {"t1", "t2"}

NoFrame ==
    [op |-> "none", key |-> "", default_value |-> <<>>,
     prop |-> nullptr, bufferLen |-> 0, str |-> <<>>, result |-> <<>>]

ThreadInit ==
    /\ pc = [t \in Threads |-> "idle"]
    /\ frame = [t \in Threads |-> NoFrame]
    /\ stack_return_value = [t \in Threads |-> <<>>]
    /\ stack_buffer = [t \in Threads |-> <<>>]
    /\ fired = [t \in Threads |-> 0]

HistInit ==
    /\ seen = [call |-> NoCall, ret |-> <<>>]
    /\ fresh = FALSE
    /\ later = FALSE

\* No editor has been described yet: inputType is TYPE_NULL, imeOptions is
\* IME_NULL.
TextInit ==
    /\ imeOptions = IME_NULL
    /\ inputType = TYPE_NULL
    /\ built = [class |-> TYPE_NULL, variation |-> TYPE_NULL,
                flags |-> TYPE_NULL]

Init ==
    /\ props = << >>
    /\ ANDROID_API \in ApiLevels
    /\ call = NoCall
    /\ ret = <<>>
    /\ HistInit
    /\ ThreadInit
    /\ TextInit

\* Another process sets a property (there is no way to delete one).  call
\* and ret describe the call that led to the current state, so a change
\* of the namespace clears them.
SetProp(k, v) ==
    /\ props' = [x \in DOMAIN props \cup {k} |-> IF x = k THEN v ELSE props[x]]
    /\ call' = NoCall
    /\ ret' = <<>>
    /\ UNCHANGED ANDROID_API

\* Mutant of CallGetSystemProp: reading a property empties it.
CallGetSystemProp_consumes(k, d) ==
    /\ call' = [op |-> "GetSystemProp", key |-> k, default_value |-> d]
    /\ ret' = GetSystemProp(k, d)
    /\ props' = [x \in DOMAIN props |-> IF x = k THEN <<>> ELSE props[x]]
    /\ UNCHANGED ANDROID_API

CallGetSystemProp(k, d) ==
    /\ call' = [op |-> "GetSystemProp", key |-> k, default_value |-> d]
    /\ ret' = GetSystemProp(k, d)
    /\ UNCHANGED <<props, ANDROID_API>>

\* Mutant of CallGetSystemPropAsInt: the result of an earlier call with the
\* same arguments is kept and returned again.
CallGetSystemPropAsInt_cached(k, d) ==
    /\ call' = [op |-> "GetSystemPropAsInt", key |-> k, default_value |-> d]
    /\ ret' = IF /\ seen.call.op = "GetSystemPropAsInt"
                 /\ seen.call.key = k
                 /\ seen.call.default_value = d
              THEN seen.ret
              ELSE GetSystemPropAsInt(k, d)
    /\ UNCHANGED <<props, ANDROID_API>>

\* Mutant of CallGetSystemPropAsInt: a key that is not there is created.
CallGetSystemPropAsInt_creates(k, d) ==
    /\ call' = [op |-> "GetSystemPropAsInt", key |-> k, default_value |-> d]
    /\ ret' = GetSystemPropAsInt(k, d)
    /\ props' = [x \in DOMAIN props \cup {k} |->
                    IF x \in DOMAIN props THEN props[x] ELSE <<"0">>]
    /\ UNCHANGED ANDROID_API

CallGetSystemPropAsInt(k, d) ==
    /\ call' = [op |-> "GetSystemPropAsInt", key |-> k, default_value |-> d]
    /\ ret' = GetSystemPropAsInt(k, d)
    /\ UNCHANGED <<props, ANDROID_API>>

CallGetSystemPropAsBool(k, b) ==
    /\ call' = [op |-> "GetSystemPropAsBool", key |-> k, default_value |-> b]
    /\ ret' = GetSystemPropAsBool(k, b)
    /\ UNCHANGED <<props, ANDROID_API>>

\* Some accessor is called with some arguments.
AnyCall ==
    \/ \E k \in Keys, d \in StrDefaults : CallGetSystemProp(k, d)
    \/ \E k \in Keys, d \in IntDefaults : CallGetSystemPropAsInt(k, d)
    \/ \E k \in Keys, b \in BOOLEAN : CallGetSystemPropAsBool(k, b)

Next ==
    \/ \E k \in Keys, v \in PropValues :
          SetProp(k, v) /\ UNCHANGED <<histVars, threadVars, textVars>>
    \/ \E k \in Keys, d \in StrDefaults :
          CallGetSystemProp(k, d) /\ UNCHANGED <<histVars, threadVars, textVars>>
    \/ \E k \in Keys, d \in IntDefaults :
          CallGetSystemPropAsInt(k, d) /\ UNCHANGED <<histVars, threadVars, textVars>>
    \/ \E k \in Keys, b \in BOOLEAN :
          CallGetSystemPropAsBool(k, b) /\ UNCHANGED <<histVars, threadVars, textVars>>

Spec == Init /\ [][Next]_vars

\* ---- the same machine with the history of its calls kept ----

\* The values the namespace takes where the history is kept: empty, zero,
\* a number, no number.
HistValues == { <<>>, <<"0">>, <<"4", "2">>, <<"x">> }

SameCall(a, b) ==
    /\ a.op = b.op
    /\ a.key = b.key
    /\ a.default_value = b.default_value

HistSetProp(k, v) ==
    /\ SetProp(k, v)
    /\ fresh' = FALSE
    /\ UNCHANGED <<seen, later, threadVars, textVars>>

\* A call that is kept in seen.
HistRemember ==
    /\ AnyCall
    /\ seen' = [call |-> call', ret |-> ret']
    /\ fresh' = TRUE
    /\ later' = FALSE
    /\ UNCHANGED <<threadVars, textVars>>

\* A call made after the one kept in seen.
HistLater ==
    /\ seen.call.op # "none"
    /\ AnyCall
    /\ later' = TRUE
    /\ UNCHANGED <<seen, fresh, threadVars, textVars>>

HistNext ==
    \/ \E k \in Keys, v \in HistValues : HistSetProp(k, v)
    \/ HistRemember
    \/ HistLater

SpecHist == Init /\ [][HistNext]_vars

\* ---- the accessors step by step, on several threads ----

\* The values the namespace takes where threads run: empty, a number, no
\* number.
ThreadValues == { <<>>, <<"4", "2">>, <<"x">> }

\* The namespace does not change while the threads run; it starts as any
\* namespace over ThreadValues.
ThreadNamespaces ==
    UNION { [S -> ThreadValues] : S \in SUBSET Keys }

InitThreads ==
    /\ props \in ThreadNamespaces
    /\ ANDROID_API \in ApiLevels
    /\ call = NoCall
    /\ ret = <<>>
    /\ HistInit
    /\ ThreadInit
    /\ TextInit

\* Mutant of Local: the locals are static, one copy for all threads.
Local_static(t) == "t1"

\* Where a thread keeps the locals of its call: its own stack frame.
Local(t) == t

\* Mutant of InnerDefault: GetSystemPropAsInt looks the key up with "0" as
\* the default instead of "".
InnerDefault_zero(f) ==
    IF f.op = "GetSystemProp" THEN f.default_value ELSE <<"0">>

\* The default GetSystemProp is called with: the caller's, or "" when
\* GetSystemPropAsInt calls it.
InnerDefault(f) ==
    IF f.op = "GetSystemProp" THEN f.default_value ELSE <<>>

\* What the accessor makes of the string GetSystemProp returned.
Decode(f, prop) ==
    IF f.op = "GetSystemProp" THEN prop
    ELSE IF f.op = "GetSystemPropAsInt"
    THEN IF prop = <<>> THEN f.default_value ELSE ToInt(strtoll(prop))
    ELSE (IF prop = <<>> THEN BoolToInt(f.default_value)
          ELSE ToInt(strtoll(prop))) # 0

\* Mutant of CanReturn: the function returns without waiting for the read
\* callback to have run.
CanReturn_early(t) == pc[t] \in {"read", "ret"}

\* The statement after __system_property_read_callback (callback
\* mechanism) or __system_property_get (buffer-fill mechanism) is reached.
CanReturn(t) == pc[t] = "ret"

\* A thread enters an accessor.
T_Call(t, op, k, d) ==
    /\ pc[t] = "idle"
    /\ pc' = [pc EXCEPT ![t] = IF ANDROID_API >= 26 THEN "find" ELSE "get"]
    /\ frame' = [frame EXCEPT ![t] =
                    [NoFrame EXCEPT !.op = op, !.key = k, !.default_value = d]]
    /\ fired' = [fired EXCEPT ![t] = 0]
    /\ UNCHANGED <<stack_return_value, stack_buffer>>

\* getSystemPropViaCallback up to the call of the read callback: the
\* lookup, the early return of the default, the empty return_value.
T_Find(t) ==
    /\ pc[t] = "find"
    /\ LET prop == system_property_find(frame[t].key)
       IN  IF prop = nullptr
           THEN /\ frame' = [frame EXCEPT
                               ![t].str = InnerDefault(frame[t]),
                               ![t].result =
                                   Decode(frame[t], InnerDefault(frame[t]))]
                /\ pc' = [pc EXCEPT ![t] = "done"]
                /\ UNCHANGED stack_return_value
           ELSE /\ frame' = [frame EXCEPT ![t].prop = prop]
                /\ stack_return_value' =
                       [stack_return_value EXCEPT ![Local(t)] = <<>>]
                /\ pc' = [pc EXCEPT ![t] = "read"]
    /\ UNCHANGED <<stack_buffer, fired>>

\* __system_property_read_callback runs the thunk on the thread's cookie.
T_ReadCallback(t) ==
    /\ pc[t] = "read"
    /\ stack_return_value' = [stack_return_value EXCEPT ![Local(t)] =
            thunk(stack_return_value[Local(t)], frame[t].prop[1],
                  <<props[frame[t].prop[1]]>>, 0)]
    /\ fired' = [fired EXCEPT ![t] = fired[t] + 1]
    /\ pc' = [pc EXCEPT ![t] = "ret"]
    /\ UNCHANGED <<frame, stack_buffer>>

\* getSystemPropViaGet up to the test of bufferLen.
T_Get(t) ==
    /\ pc[t] = "get"
    /\ LET got == system_property_get(frame[t].key, <<>>)
       IN  /\ stack_buffer' = [stack_buffer EXCEPT ![Local(t)] = got.buffer]
           /\ frame' = [frame EXCEPT ![t].bufferLen = got.len]
    /\ pc' = [pc EXCEPT ![t] = "ret"]
    /\ UNCHANGED <<stack_return_value, fired>>

\* The return of GetSystemProp and, in the typed accessors, the decoding of
\* what it returned; the locals of the call end with it.
T_Return(t) ==
    /\ CanReturn(t)
    /\ LET str == IF ANDROID_API >= 26
                  THEN stack_return_value[Local(t)]
                  ELSE IF frame[t].bufferLen > 0
                       THEN stack_buffer[Local(t)] ELSE <<>>
       IN  frame' = [frame EXCEPT ![t].str = str,
                                  ![t].result = Decode(frame[t], str)]
    /\ stack_return_value' = [stack_return_value EXCEPT ![Local(t)] = <<>>]
    /\ stack_buffer' = [stack_buffer EXCEPT ![Local(t)] = <<>>]
    /\ pc' = [pc EXCEPT ![t] = "done"]
    /\ UNCHANGED fired

\* The caller has the result; the thread is free for its next call.
T_Done(t) ==
    /\ pc[t] = "done"
    /\ pc' = [pc EXCEPT ![t] = "idle"]
    /\ frame' = [frame EXCEPT ![t] = NoFrame]
    /\ fired' = [fired EXCEPT ![t] = 0]
    /\ UNCHANGED <<stack_return_value, stack_buffer>>

ThreadFrame ==
    UNCHANGED <<props, ANDROID_API, call, ret, histVars, textVars>>

ThreadNext ==
    \/ \E t \in Threads, k \in Keys, d \in StrDefaults :
          T_Call(t, "GetSystemProp", k, d) /\ ThreadFrame
    \/ \E t \in Threads, k \in Keys, d \in IntDefaults :
          T_Call(t, "GetSystemPropAsInt", k, d) /\ ThreadFrame
    \/ \E t \in Threads, k \in Keys, b \in BOOLEAN :
          T_Call(t, "GetSystemPropAsBool", k, b) /\ ThreadFrame
    \/ \E t \in Threads : T_Find(t) /\ ThreadFrame
    \/ \E t \in Threads : T_ReadCallback(t) /\ ThreadFrame
    \/ \E t \in Threads : T_Get(t) /\ ThreadFrame
    \/ \E t \in Threads : T_Return(t) /\ ThreadFrame
    \/ \E t \in Threads : T_Done(t) /\ ThreadFrame

SpecThreads == InitThreads /\ [][ThreadNext]_vars

\* ---- the inputType of an editor, put together from the enum's bits ----

\* An inputType is built as class | variation | flags: the class and the
\* variation are chosen first, before any flag is added.
BuildInputType(c, v) ==
    /\ built.flags = TYPE_NULL
    /\ inputType' = BitOr(c, v)
    /\ built' = [class |-> c, variation |-> v, flags |-> TYPE_NULL]
    /\ UNCHANGED imeOptions

\* A flag is added to the inputType: inputType |= f.
AddFlag(f) ==
    /\ inputType' = BitOr(inputType, f)
    /\ built' = [built EXCEPT !.flags = BitOr(built.flags, f)]
    /\ UNCHANGED imeOptions

TextFrame ==
    UNCHANGED <<props, ANDROID_API, call, ret, histVars, threadVars>>

TextNext ==
    \/ \E c \in TypeClasses, v \in TypeVariations :
          BuildInputType(c, v) /\ TextFrame
    \/ \E f \in TypeFlags : AddFlag(f) /\ TextFrame

SpecText == Init /\ [][TextNext]_vars

\* ---- the imeOptions of an editor ----

\* imeOptions is given an action, with no flag yet.
SetImeAction(a) ==
    /\ imeOptions' = a
    /\ UNCHANGED <<inputType, built>>

\* A flag is added to the imeOptions: imeOptions |= f.
AddImeFlag(f) ==
    /\ imeOptions' = BitOr(imeOptions, f)
    /\ UNCHANGED <<inputType, built>>

ImeNext ==
    \/ \E a \in ImeActions : SetImeAction(a) /\ TextFrame
    \/ \E f \in ImeFlags : AddImeFlag(f) /\ TextFrame

SpecIme == Init /\ [][ImeNext]_vars

\* ------------------------------------------------------------------------
\* Properties
\* ------------------------------------------------------------------------

Present(k) == k \in DOMAIN props

Called(op) == call.op = op

\* The decimal numeral of an integer, as printf("%d") writes it.
RECURSIVE NatNumeral(_)
NatNumeral(n) ==
    IF n < 10 THEN <<DigitChars[n + 1]>>
    ELSE Append(NatNumeral(n \div 10), DigitChars[(n % 10) + 1])

Numeral(n) == IF n < 0 THEN <<"-">> \o NatNumeral(0 - n) ELSE NatNumeral(n)

\* Integers that fit in int and whose numerals the namespace can hold.
PlainInts == {-1, 0, 1, 3, 42, 2147483647}

\* C1: GetSystemProp of a key the namespace does not hold returns the
\* default it was given, on either query mechanism.
C1_AbsentReturnsDefault ==
    (Called("GetSystemProp") /\ ~Present(call.key))
        => ret = call.default_value

\* C2: GetSystemProp of a key the namespace holds returns the key's value,
\* the empty value included, whatever the default is.
C2_PresentReturnsValue ==
    (Called("GetSystemProp") /\ Present(call.key))
        => ret = props[call.key]

\* C2 witness: a key holding the empty value was read with a non-empty
\* default and the empty value came back.
C2_Witness ==
    /\ Called("GetSystemProp")
    /\ Present(call.key)
    /\ props[call.key] = <<>>
    /\ call.default_value = <<"d">>
    /\ ret = <<>>

\* C3: GetSystemPropAsInt of a key the namespace does not hold returns the
\* integer default it was given.
C3_AbsentIntReturnsDefault ==
    (Called("GetSystemPropAsInt") /\ ~Present(call.key))
        => ret = call.default_value

\* C3 witness: an absent key read with default -1 gave -1.
C3_Witness ==
    /\ Called("GetSystemPropAsInt")
    /\ ~Present(call.key)
    /\ call.default_value = -1
    /\ ret = -1

\* C4: when the key's value is the plain decimal numeral of an integer n
\* that fits in int, GetSystemPropAsInt returns n, whatever the default.
C4_NumeralDecodes ==
    (Called("GetSystemPropAsInt") /\ Present(call.key))
        => \A n \in PlainInts : props[call.key] = Numeral(n) => ret = n

\* C4 witness: the value "42" was read with default -1 and 42 came back.
C4_Witness ==
    /\ Called("GetSystemPropAsInt")
    /\ Present(call.key)
    /\ props[call.key] = <<"4", "2">>
    /\ call.default_value = -1
    /\ ret = 42

\* C5: a key holding the empty value reads as absent through the typed
\* accessors: GetSystemPropAsInt and GetSystemPropAsBool return their
\* default.
C5_EmptyValueGivesDefault ==
    ( /\ Called("GetSystemPropAsInt") \/ Called("GetSystemPropAsBool")
      /\ Present(call.key)
      /\ props[call.key] = <<>> )
        => ret = call.default_value

\* C5 witness: GetSystemPropAsBool(key, true) on a key holding "" gave true.
C5_Witness ==
    /\ Called("GetSystemPropAsBool")
    /\ Present(call.key)
    /\ props[call.key] = <<>>
    /\ call.default_value = TRUE
    /\ ret = TRUE

\* C6: GetSystemPropAsBool is false for the value "0" and true for the
\* value "1", whatever the default.
C6_ZeroOneDecode ==
    (Called("GetSystemPropAsBool") /\ Present(call.key))
        => /\ props[call.key] = <<"0">> => ret = FALSE
           /\ props[call.key] = <<"1">> => ret = TRUE

\* C6 witness: the value "0" read with default true gave false.
C6_Witness ==
    /\ Called("GetSystemPropAsBool")
    /\ Present(call.key)
    /\ props[call.key] = <<"0">>
    /\ call.default_value = TRUE
    /\ ret = FALSE

\* C7: GetSystemPropAsBool of a key the namespace does not hold returns
\* the boolean default it was given.
C7_AbsentBoolReturnsDefault ==
    (Called("GetSystemPropAsBool") /\ ~Present(call.key))
        => ret = call.default_value

\* C7 witness: an absent key read with default true gave true.
C7_Witness ==
    /\ Called("GetSystemPropAsBool")
    /\ ~Present(call.key)
    /\ call.default_value = TRUE
    /\ ret = TRUE

\* C8: GetSystemPropAsBool(key, b) is GetSystemPropAsInt(key, b ? 1 : 0)
\* compared with 0, in every namespace.
C8_BoolIsIntNonZero ==
    Called("GetSystemPropAsBool")
        => ret = (GetSystemPropAsInt(call.key,
                                     IF call.default_value THEN 1 ELSE 0) # 0)

\* C8 witness: a negative value, for which the integer is non-zero and not
\* positive, read as true with default false.
C8_Witness ==
    /\ Called("GetSystemPropAsBool")
    /\ Present(call.key)
    /\ props[call.key] = <<"-", "1">>
    /\ call.default_value = FALSE
    /\ ret = TRUE

\* The whole value is a decimal integer (blanks, one optional sign, at
\* least one digit, nothing else) within the range of long long, and it is
\* not zero.
ParsesNonZero(v) ==
    LET i0 == SkipSpace(v, 1)
        i1 == IF i0 <= Len(v) /\ v[i0] \in {"+", "-"} THEN i0 + 1 ELSE i0
        ds == SubSeq(v, i1, Len(v))
        mag == StripZeros([k \in 1..Len(ds) |-> DigitOf(ds[k])])
    IN  /\ ds # <<>>
        /\ \A k \in 1..Len(ds) : isdigit(ds[k])
        /\ \E k \in 1..Len(ds) : ds[k] # "0"
        /\ ~MagGreater(mag, LLONG_MAX_MAG)

\* C9: GetSystemPropAsBool is true for every value that parses as a
\* non-zero decimal integer, whatever the default.
C9_NonZeroIsTrue ==
    (Called("GetSystemPropAsBool") /\ Present(call.key)
        /\ ParsesNonZero(props[call.key]))
        => ret = TRUE

\* C10: the callback mechanism and the buffer-fill mechanism return the
\* same string for every key and default, in every namespace whose values
\* fit the legacy buffer.
C10_MechanismsAgree ==
    (\A k \in DOMAIN props : Len(props[k]) <= PROP_VALUE_MAX)
        => \A k \in Keys, d \in StrDefaults :
              getSystemPropViaCallback(k, d) = getSystemPropViaGet(k, d)

\* C12: no call of an accessor changes the namespace: every step that
\* records a call leaves the set of keys and every value as they were.
C12_CallsLeaveNamespace ==
    [][call'.op # "none" => props' = props]_vars

\* C12 witness: both keys are set and an accessor has decoded one of them;
\* the namespace still holds the two values.
C12_Witness ==
    /\ DOMAIN props = Keys
    /\ Called("GetSystemPropAsBool")
    /\ props[call.key] = <<"3">>
    /\ \A k \in Keys \ {call.key} : props[k] = <<"x">>
    /\ ret = TRUE

\* ---- malformed values ----

\* v without its leading white space.
RECURSIVE TrimLeft(_)
TrimLeft(v) ==
    IF v # <<>> /\ Head(v) \in {" ", "\t", "\n", "\r", "\f"}
    THEN TrimLeft(Tail(v)) ELSE v

Unsigned(w) == IF w # <<>> /\ Head(w) \in {"+", "-"} THEN Tail(w) ELSE w

\* The whole of v is white space, one optional sign and at least one digit.
IsInteger(v) ==
    LET ds == Unsigned(TrimLeft(v))
    IN  ds # <<>> /\ \A k \in 1..Len(ds) : isdigit(ds[k])

\* A value found but not validly formatted as an integer.
Malformed(v) == v # <<>> /\ ~IsInteger(v)

\* v has no leading numeric part: no digit follows the white space and sign.
NoLeadingDigits(v) ==
    LET ds == Unsigned(TrimLeft(v))
    IN  ds = <<>> \/ ~isdigit(ds[1])

\* The leading numeric part of v is the numeral of n.
LeadsWith(v, n) ==
    LET w == TrimLeft(v)
        m == Numeral(n)
    IN  /\ Len(w) >= Len(m)
        /\ SubSeq(w, 1, Len(m)) = m
        /\ Len(w) > Len(m) => ~isdigit(w[Len(m) + 1])

PrefixInts == PlainInts \cup 0..9

\* What GetSystemPropAsInt returns for a malformed value: the number its
\* leading numeric part denotes, 0 when it has none; never the default.
MalformedIntOk ==
    (Called("GetSystemPropAsInt") /\ Present(call.key)
        /\ Malformed(props[call.key]))
        => /\ NoLeadingDigits(props[call.key]) => ret = 0
           /\ \A n \in PrefixInts : LeadsWith(props[call.key], n) => ret = n

QueryFailed(k) ==
    IF ANDROID_API >= 26
    THEN system_property_find(k) = nullptr
    ELSE system_property_get(k, <<>>).len <= 0

\* C14: whenever the platform query fails, GetSystemProp returns the
\* caller's default, as for an absent key.
C14_FailureGivesDefault ==
    (Called("GetSystemProp") /\ QueryFailed(call.key))
        => ret = call.default_value

\* C15: every call ends with a value of its type, which is the stored
\* value or the caller's default (GetSystemProp), the default or the
\* decoding of the stored value (GetSystemPropAsInt, GetSystemPropAsBool).
C15_AlwaysAValue ==
    /\ Called("GetSystemProp")
         => \/ ret = call.default_value
            \/ Present(call.key) /\ ret = props[call.key]
    /\ Called("GetSystemPropAsInt")
         => /\ ret \in Int
            /\ ret = call.default_value \/ Present(call.key)
    /\ Called("GetSystemPropAsBool")
         => /\ ret \in BOOLEAN
            /\ ret = call.default_value \/ Present(call.key)

\* C18: a value made of leading blanks, an optional sign and the digits of
\* a number n that fits in int decodes to n, negated after '-'.
C18_BlanksAndSign ==
    (Called("GetSystemPropAsInt") /\ Present(call.key))
        => \A p \in 0..MaxPad, n \in {0, 1, 3, 42, 2147483647} :
              /\ props[call.key] = Blanks(p) \o NatNumeral(n) => ret = n
              /\ props[call.key] = Blanks(p) \o <<"+">> \o NatNumeral(n)
                    => ret = n
              /\ props[call.key] = Blanks(p) \o <<"-">> \o NatNumeral(n)
                    => ret = 0 - n

\* C18 witness: the value " -1" read with default 1 gave -1.
C18_Witness ==
    /\ Called("GetSystemPropAsInt")
    /\ Present(call.key)
    /\ props[call.key] = <<" ", "-", "1">>
    /\ call.default_value = 1
    /\ ret = -1

\* Numerals around the edges of int and long long, each with its number
\* reduced modulo 2^32 into the range of int (the number is the nearest
\* bound of long long when it lies beyond it).
NarrowTable ==
    { << <<"2","1","4","7","4","8","3","6","4","7">>, 2147483647 >>,
      << <<"2","1","4","7","4","8","3","6","4","8">>, -2147483647 - 1 >>,
      << <<"-","2","1","4","7","4","8","3","6","4","9">>, 2147483647 >>,
      << <<"4","2","9","4","9","6","7","2","9","6">>, 0 >>,
      << <<"4","2","9","4","9","6","7","2","9","7">>, 1 >>,
      << <<"9","2","2","3","3","7","2","0","3","6","8","5","4","7","7","5","8","0","8">>, -1 >>,
      << <<"-","9","2","2","3","3","7","2","0","3","6","8","5","4","7","7","5","8","0","9">>, 0 >> }

\* C20: GetSystemPropAsInt returns the parsed 64-bit number reduced modulo
\* 2^32 into the range of int: the number itself only when it fits in 32
\* bits, 0 for 2^32, and the reduction of LLONG_MAX or LLONG_MIN for a
\* numeral beyond the 64-bit range.
C20_NarrowsTo32Bits ==
    (Called("GetSystemPropAsInt") /\ Present(call.key))
        => \A e \in NarrowTable : props[call.key] = e[1] => ret = e[2]

\* C20 witness: the numeral of 2^32 read with default -1 gave 0.
C20_Witness ==
    /\ Called("GetSystemPropAsInt")
    /\ Present(call.key)
    /\ props[call.key] = <<"4","2","9","4","9","6","7","2","9","6">>
    /\ call.default_value = -1
    /\ ret = 0

\* ---- repeated calls ----

\* C11: a call with the same accessor, key and default as an earlier call,
\* with no change of the namespace in between, returns what the earlier
\* call returned.
C11_RepeatedCallSameResult ==
    (call.op # "none" /\ fresh /\ SameCall(seen.call, call))
        => ret = seen.ret

\* C11 witness: GetSystemPropAsInt of a key holding "42" was called, other
\* calls or the same followed, and a later call with the same arguments
\* gave 42 again.
C11_Witness ==
    /\ fresh
    /\ later
    /\ Called("GetSystemPropAsInt")
    /\ SameCall(seen.call, call)
    /\ Present(call.key)
    /\ props[call.key] = <<"4", "2">>
    /\ seen.ret = 42
    /\ ret = 42

\* C19: with changes of the namespace between the calls, every call
\* returns what the namespace holds when it is made: the value of a present
\* key, and for the typed accessors the default for an absent or empty
\* key, the number of a numeral, 0 for text without digits.
C19_ReflectsCurrentNamespace ==
    /\ (Called("GetSystemProp") /\ Present(call.key))
          => ret = props[call.key]
    /\ Called("GetSystemPropAsInt")
          => IF ~Present(call.key) \/ props[call.key] = <<>>
             THEN ret = call.default_value
             ELSE /\ \A n \in PlainInts :
                        props[call.key] = Numeral(n) => ret = n
                  /\ props[call.key] = <<"x">> => ret = 0
    /\ Called("GetSystemPropAsBool")
          => IF ~Present(call.key) \/ props[call.key] = <<>>
             THEN ret = call.default_value
             ELSE /\ \A n \in PlainInts :
                        props[call.key] = Numeral(n) => ret = (n # 0)
                  /\ props[call.key] = <<"x">> => ret = FALSE

\* C19 witness: GetSystemPropAsInt gave 0 for a key holding "0", the key
\* was then set to "42", and a later call with the same arguments gave 42.
C19_Witness ==
    /\ ~fresh
    /\ later
    /\ Called("GetSystemPropAsInt")
    /\ SameCall(seen.call, call)
    /\ seen.ret = 0
    /\ call.default_value = -1
    /\ Present(call.key)
    /\ props[call.key] = <<"4", "2">>
    /\ ret = 42

\* ---- the step-by-step accessors ----

Found(t) == frame[t].key \in DOMAIN props

\* C16: on the callback mechanism, a call whose property was found has
\* returned only after the thunk ran once and stored the value; the thunk
\* runs only inside __system_property_read_callback, never for a thread
\* that has returned or is idle, and nothing written after the return
\* changes what the call returned.
C16_CallbackBeforeReturn ==
    /\ [](\A t \in Threads :
            (ANDROID_API >= 26 /\ pc[t] = "done" /\ Found(t))
               => /\ fired[t] = 1
                  /\ frame[t].str = props[frame[t].key])
    /\ [][\A t \in Threads :
            /\ fired'[t] > fired[t] => pc[t] = "read"
            /\ (pc[t] = "done" /\ pc'[t] = "done") => frame'[t] = frame[t]
         ]_vars

\* C16 witness: a thread has returned "42" after its thunk ran once, while
\* the other thread's read callback is still to run.
C16_Witness ==
    /\ ANDROID_API >= 26
    /\ pc["t1"] = "done"
    /\ frame["t1"].op = "GetSystemProp"
    /\ Found("t1")
    /\ fired["t1"] = 1
    /\ frame["t1"].result = <<"4", "2">>
    /\ pc["t2"] = "read"
    /\ fired["t2"] = 0

\* What the call of a frame returns when it runs alone, in one piece.
Alone(f) ==
    IF f.op = "GetSystemProp" THEN GetSystemProp(f.key, f.default_value)
    ELSE IF f.op = "GetSystemPropAsInt"
    THEN GetSystemPropAsInt(f.key, f.default_value)
    ELSE GetSystemPropAsBool(f.key, f.default_value)

\* C17: whatever the interleaving of the threads' steps, a call that has
\* returned has returned what it returns when run alone.
C17_InterleavedAsAlone ==
    \A t \in Threads :
        pc[t] = "done" => frame[t].result = Alone(frame[t])

\* C17 witness: the two threads have both returned, one 42 from
\* GetSystemPropAsInt of a key holding "42", the other "x" from
\* GetSystemProp of the other key.
C17_Witness ==
    /\ pc["t1"] = "done"
    /\ pc["t2"] = "done"
    /\ frame["t1"].op = "GetSystemPropAsInt"
    /\ frame["t2"].op = "GetSystemProp"
    /\ frame["t1"].key # frame["t2"].key
    /\ frame["t1"].result = 42
    /\ frame["t2"].result = <<"x">>

\* What a typed accessor returns when GetSystemProp takes the callback
\* mechanism (__ANDROID_API__ >= 26), and when it takes the legacy
\* buffer-fill mechanism.
TypedViaCallback(op, k, d) ==
    LET f == [NoFrame EXCEPT !.op = op, !.key = k, !.default_value = d]
    IN  Decode(f, getSystemPropViaCallback(k, InnerDefault(f)))

TypedViaGet(op, k, d) ==
    LET f == [NoFrame EXCEPT !.op = op, !.key = k, !.default_value = d]
    IN  Decode(f, getSystemPropViaGet(k, InnerDefault(f)))

\* C21: in every namespace whose values fit the legacy maximum length,
\* whatever typed call was just made (GetSystemPropAsInt or
\* GetSystemPropAsBool, any key, any default), the callback mechanism and
\* the legacy mechanism return the same for it, and that is the result the
\* call had on the mechanism the build has.
C21_TypedAccessorsAgree ==
    (/\ \A k \in DOMAIN props : Len(props[k]) <= PROP_VALUE_MAX
     /\ (Called("GetSystemPropAsInt") \/ Called("GetSystemPropAsBool")))
        => /\ TypedViaCallback(call.op, call.key, call.default_value)
                  = TypedViaGet(call.op, call.key, call.default_value)
           /\ ret = TypedViaCallback(call.op, call.key, call.default_value)

\* C21 witness: on the legacy mechanism GetSystemPropAsInt of an absent key
\* returned the default 1, as the callback mechanism does, while the other
\* key holds "42" and decodes to 42 on both.
C21_Witness ==
    /\ ANDROID_API < 26
    /\ Called("GetSystemPropAsInt")
    /\ ~Present(call.key)
    /\ call.default_value = 1
    /\ ret = 1
    /\ TypedViaCallback("GetSystemPropAsInt", call.key, 1) = 1
    /\ \E k \in DOMAIN props :
          /\ props[k] = <<"4", "2">>
          /\ TypedViaCallback("GetSystemPropAsInt", k, 1) = 42
          /\ TypedViaGet("GetSystemPropAsInt", k, 1) = 42

\* The three masks of inputType share no bit.
MasksDisjoint ==
    /\ BitAnd(TYPE_MASK_CLASS, TYPE_MASK_VARIATION) = 0
    /\ BitAnd(TYPE_MASK_CLASS, TYPE_MASK_FLAGS) = 0
    /\ BitAnd(TYPE_MASK_VARIATION, TYPE_MASK_FLAGS) = 0

\* Every constant of a part has all its bits inside the mask of the part.
ConstantsInsideMasks ==
    /\ \A c \in TypeClasses : BitAnd(c, TYPE_MASK_CLASS) = c
    /\ \A v \in TypeVariations : BitAnd(v, TYPE_MASK_VARIATION) = v
    /\ \A f \in TypeFlags : BitAnd(f, TYPE_MASK_FLAGS) = f

\* C22: the three masks of inputType are pairwise disjoint, every
\* TYPE_CLASS_* constant lies inside TYPE_MASK_CLASS, every
\* TYPE_*_VARIATION_* constant inside TYPE_MASK_VARIATION and every
\* TYPE_*_FLAG_* constant inside TYPE_MASK_FLAGS, and an inputType built as
\* class | variation | flags gives back each of its parts under the mask
\* of that part.
C22_BitFieldsWellFormed ==
    /\ MasksDisjoint
    /\ ConstantsInsideMasks
    /\ BitAnd(inputType, TYPE_MASK_CLASS) = built.class
    /\ BitAnd(inputType, TYPE_MASK_VARIATION) = built.variation
    /\ BitAnd(inputType, TYPE_MASK_FLAGS) = built.flags

\* C22 witness: a text editor for a web password with the multi-line and
\* the text-conversion-suggestions flags, inputType 0x001200e1, has been
\* built and decomposes into class 1, variation 0xe0 and flags 0x120000.
C22_Witness ==
    /\ built.class = TYPE_CLASS_TEXT
    /\ built.variation = TYPE_TEXT_VARIATION_WEB_PASSWORD
    /\ built.flags = TYPE_TEXT_FLAG_MULTI_LINE
                       + TYPE_TEXT_FLAG_ENABLE_TEXT_CONVERSION_SUGGESTIONS
    /\ inputType = 1 + 224 + 131072 + 1048576
    /\ BitAnd(inputType, TYPE_MASK_FLAGS) = 131072 + 1048576

\* C23: the value of IME_MASK_ACTION is the mask its row of the imeOptions
\* diagram draws, the four low bits 1111, so that the enum constant and
\* the drawn mask select the same bits of any imeOptions.
C23_MaskActionAsDrawn ==
    /\ IME_MASK_ACTION = BitsValue(Diagram_IME_MASK_ACTION)
    /\ BitAnd(imeOptions, IME_MASK_ACTION)
           = BitAnd(imeOptions, BitsValue(Diagram_IME_MASK_ACTION))

====
